---- MODULE Spec2Model ----
\* A model of CVJobMatcher/CV_Language_score.py: the text normalizer, the noise
\* stripper, the issue filter and scorer, and the position mapper and reporter.
\*
\* A document is a sequence of characters; a character is a one-character string,
\* or a code-point name such as "U+FB01" for a character outside ASCII.
EXTENDS Integers, Sequences, FiniteSets, TLC

VARIABLES pc, raw, allowed_lower, clean, raw_matches, errors, summary, blocks, fault, arg, ret

vars == <<pc, raw, allowed_lower, clean, raw_matches, errors, summary, blocks, fault, arg, ret>>

\* ------------------------------------------------------------------ characters

NL == "\n"
CR == "\r"
SP == " "
HY == "-"

Lower == {"a","b","c","d","e","f","g","h","i","j","k","l","m",
          "n","o","p","q","r","s","t","u","v","w","x","y","z"}

Upper == {"A","B","C","D","E","F","G","H","I","J","K","L","M",
          "N","O","P","Q","R","S","T","U","V","W","X","Y","Z"}

Digits == {"0","1","2","3","4","5","6","7","8","9"}

\* \w of a str pattern: alphanumerics and the underscore.
IsWord(c) == c \in Lower \cup Upper \cup Digits \cup {"_"}

\* \s of a str pattern.
IsSpace(c) == c \in {SP, NL, CR, "\t", "\f"}

\* ------------------------------------------------------------------ str methods

Max(S) == CHOOSE x \in S : \A y \in S : y <= x
Min(S) == CHOOSE x \in S : \A y \in S : x <= y

RECURSIVE Concat(_)
Concat(ss) == IF ss = <<>> THEN <<>> ELSE Head(ss) \o Concat(Tail(ss))

\* s[i:j] with 0-based bounds i, j >= 0, clamped to the string as slicing clamps them.
PySlice(s, i, j) ==
    LET a == IF i > Len(s) THEN Len(s) ELSE i
        b == IF j > Len(s) THEN Len(s) ELSE j
    IN  IF b <= a THEN <<>> ELSE SubSeq(s, a + 1, b)

\* s.count(c, 0, e): occurrences of the character c in s[0:e].
PyCount(s, c, e) == Cardinality({k \in 1..Len(PySlice(s, 0, e)) : s[k] = c})

\* s.rfind(c, 0, e): 0-based index of the last c in s[0:e], or -1.
PyRFind(s, c, e) ==
    LET K == {k \in 1..Len(PySlice(s, 0, e)) : s[k] = c}
    IN  IF K = {} THEN -1 ELSE Max(K) - 1

\* s.find(c, b): 0-based index of the first c at or after b, or -1.
PyFind(s, c, b) ==
    LET K == {k \in (b + 1)..Len(s) : s[k] = c}
    IN  IF K = {} THEN -1 ELSE Min(K) - 1

\* s.strip(): without leading and trailing whitespace.
PyStrip(s) ==
    LET K == {k \in 1..Len(s) : ~IsSpace(s[k])}
    IN  IF K = {} THEN <<>> ELSE SubSeq(s, Min(K), Max(K))

\* s.rstrip("\r\n")
RECURSIVE PyRStripCRLF(_)
PyRStripCRLF(s) ==
    IF s # <<>> /\ s[Len(s)] \in {CR, NL} THEN PyRStripCRLF(SubSeq(s, 1, Len(s) - 1)) ELSE s

LowerOf == [c \in Upper |->
    CASE c = "A" -> "a" [] c = "B" -> "b" [] c = "C" -> "c" [] c = "D" -> "d"
      [] c = "E" -> "e" [] c = "F" -> "f" [] c = "G" -> "g" [] c = "H" -> "h"
      [] c = "I" -> "i" [] c = "J" -> "j" [] c = "K" -> "k" [] c = "L" -> "l"
      [] c = "M" -> "m" [] c = "N" -> "n" [] c = "O" -> "o" [] c = "P" -> "p"
      [] c = "Q" -> "q" [] c = "R" -> "r" [] c = "S" -> "s" [] c = "T" -> "t"
      [] c = "U" -> "u" [] c = "V" -> "v" [] c = "W" -> "w" [] c = "X" -> "x"
      [] c = "Y" -> "y" [] c = "Z" -> "z"]

\* s.lower()
PyLower(s) == [k \in 1..Len(s) |-> IF s[k] \in Upper THEN LowerOf[s[k]] ELSE s[k]]

\* s.splitlines() over documents whose only line boundary is "\n": no trailing
\* empty line after a final newline, and no line at all for the empty string.
RECURSIVE SplitLines(_)
SplitLines(s) ==
    IF s = <<>> THEN <<>>
    ELSE LET n == PyFind(s, NL, 0)
         IN  IF n = -1 THEN <<s>>
             ELSE <<PySlice(s, 0, n)>> \o SplitLines(PySlice(s, n + 1, Len(s)))

\* "\n".join(lines)
RECURSIVE JoinLines(_)
JoinLines(ls) ==
    IF ls = <<>> THEN <<>>
    ELSE IF Len(ls) = 1 THEN ls[1]
    ELSE ls[1] \o <<NL>> \o JoinLines(Tail(ls))

\* ------------------------------------------------------------------ normalize_text

\* unicodedata.normalize("NFKC", s) on the characters of the model: a ligature
\* unfolds into its letters, a full-width letter folds to the ASCII letter.
NFKCChar(c) ==
    CASE c = "U+FB00" -> <<"f","f">>
      [] c = "U+FB01" -> <<"f","i">>
      [] c = "U+FB02" -> <<"f","l">>
      [] c = "U+FB03" -> <<"f","f","i">>
      [] c = "U+FB04" -> <<"f","f","l">>
      [] c = "U+FF41" -> <<"a">>
      [] OTHER -> <<c>>

NFKC(s) == Concat([k \in 1..Len(s) |-> NFKCChar(s[k])])

\* s.translate(str.maketrans(LIG_MAP))
LIG_MAP(c) ==
    CASE c = "U+FB00" -> <<"f","f">>
      [] c = "U+FB01" -> <<"f","i">>
      [] c = "U+FB02" -> <<"f","l">>
      [] c = "U+FB03" -> <<"f","f","i">>
      [] c = "U+FB04" -> <<"f","f","l">>
      [] c = "U+F001" -> <<"f","i">>
      [] c = "U+F002" -> <<"f","l">>
      [] OTHER -> <<c>>

Translate(s) == Concat([k \in 1..Len(s) |-> LIG_MAP(s[k])])

\* .replace(U+00AD, "").replace(U+200B, "").replace(U+FEFF, "")
RemoveInvisible(s) == SelectSeq(s, LAMBDA c : c \notin {"U+00AD", "U+200B", "U+FEFF"})

\* A match of (\w)-\s*\n(\w) starting at the 1-based index i: the index of its
\* last character, or 0 when the pattern does not match at i.
HyphenMatchEndAnySpace(s, i) ==
    LET J == {j \in (i + 2)..(Len(s) - 1) :
                /\ IsWord(s[i])
                /\ s[i + 1] = HY
                /\ \A k \in (i + 2)..j : IsSpace(s[k])
                /\ IsWord(s[j + 1])}
    IN  IF J = {} THEN 0 ELSE Max(J) + 1

HyphenMatchEnd(s, i) ==
    LET J == {j \in (i + 2)..(Len(s) - 1) :
                /\ IsWord(s[i])
                /\ s[i + 1] = HY
                /\ \A k \in (i + 2)..(j - 1) : IsSpace(s[k])
                /\ s[j] = NL
                /\ IsWord(s[j + 1])}
    IN  IF J = {} THEN 0 ELSE Max(J) + 1

\* re.sub(r"(\w)-\s*\n(\w)", r"\1-\2", s): the leftmost match is replaced and the
\* scan resumes after it, so matches never overlap.
RECURSIVE UnwrapFrom(_, _)
UnwrapFrom(s, i) ==
    IF i > Len(s) THEN <<>>
    ELSE LET e == HyphenMatchEnd(s, i)
         IN  IF e > 0
             THEN <<s[i], HY, s[e]>> \o UnwrapFrom(s, e + 1)
             ELSE <<s[i]>> \o UnwrapFrom(s, i + 1)

UnwrapHyphens(s) == UnwrapFrom(s, 1)

UNWRAP_LINEBREAK_HYPHENS == TRUE

CleanGlyphs(s) == RemoveInvisible(Translate(NFKC(s)))

normalize_text(s) ==
    IF UNWRAP_LINEBREAK_HYPHENS THEN UnwrapHyphens(CleanGlyphs(s)) ELSE CleanGlyphs(s)

\* ------------------------------------------------------------------ inputs

\* Every text of at most n characters of the alphabet A.
Texts(A, n) == UNION {[1..k -> A] : k \in 0..n}

Idle == [r \in {} |-> r]

\* The state of the scoring run while a single function is exercised.
NoRun ==
    /\ raw = <<>>
    /\ allowed_lower = {}
    /\ clean = <<>>
    /\ raw_matches = <<>>
    /\ errors = <<>>
    /\ summary = Idle
    /\ blocks = <<>>
    /\ fault = "none"

runVars == <<raw, allowed_lower, clean, raw_matches, errors, summary, blocks, fault>>

\* ------------------------------------------------------------------ normalize_text, applied

MaxGlyphLen == 4
MaxHyphenLen == 7

GlyphAlphabet == {"a", HY, NL, SP, "U+FB01", "U+00AD"}
HyphenAlphabet == {"a", HY, NL}

FastEvolving == <<"f","a","s","t",HY,NL,"e","v","o","l","v","i","n","g">>
EndOfSentence == <<"e","n","d",SP,"o","f",SP,"s","e","n","t","e","n","c","e",SP,HY,NL,"N","e","x","t">>
DashTokens == <<"a",SP,HY,SP,"b",HY,"c">>

NormInputs ==
    Texts(GlyphAlphabet, MaxGlyphLen) \cup Texts(HyphenAlphabet, MaxHyphenLen)
        \cup {FastEvolving, EndOfSentence, DashTokens, <<"U+F001","x">>, <<"U+FF41">>}

InitNorm ==
    /\ pc = "call"
    /\ arg \in NormInputs
    /\ ret = <<>>
    /\ NoRun

\* s1 = normalize_text(x)
NormalizeOnce ==
    /\ pc = "call"
    /\ ret' = <<normalize_text(arg)>>
    /\ pc' = "once"
    /\ UNCHANGED <<arg, runVars>>

\* s2 = normalize_text(s1)
NormalizeAgain ==
    /\ pc = "once"
    /\ ret' = Append(ret, normalize_text(ret[1]))
    /\ pc' = "twice"
    /\ UNCHANGED <<arg, runVars>>

NextNorm == NormalizeOnce \/ NormalizeAgain

SpecNorm == InitNorm /\ [][NextNorm]_vars

\* C8: normalize_text is idempotent: normalizing an already normalized text
\* changes nothing, also for several consecutive line-break hyphenations.
C8_Idempotent == pc = "twice" => ret[2] = ret[1]

\* The stretches a..b of whitespace ending in a newline that follow a hyphen which
\* itself follows a word character, and that a word character follows.
Stretches(s) ==
    {ab \in (1..Len(s)) \X (1..Len(s)) :
        /\ 3 <= ab[1] /\ ab[1] <= ab[2] /\ ab[2] < Len(s)
        /\ IsWord(s[ab[1] - 2])
        /\ s[ab[1] - 1] = HY
        /\ \A k \in ab[1]..ab[2] : IsSpace(s[k])
        /\ s[ab[2]] = NL
        /\ IsWord(s[ab[2] + 1])}

Covered(S) == UNION {ab[1]..ab[2] : ab \in S}

\* s without the characters at the positions D.
RECURSIVE RemoveAt(_, _, _)
RemoveAt(s, D, k) ==
    IF k > Len(s) THEN <<>>
    ELSE (IF k \in D THEN <<>> ELSE <<s[k]>>) \o RemoveAt(s, D, k + 1)

\* C9: normalize_text drops the whitespace and newline after a hyphen only where a
\* word character precedes the hyphen and a word character follows the newline
\* ("fast-\nevolving" becomes "fast-evolving"); a hyphen after a non-word character
\* and dash-separated tokens with no newline between them stay as they are.
C9_UnwrapOnlyAcrossNewline ==
    pc = "once" =>
        LET s == CleanGlyphs(arg)
            out == ret[1]
        IN  /\ \E S \in SUBSET Stretches(s) : out = RemoveAt(s, Covered(S), 1)
            /\ (\A k \in 1..Len(s) : s[k] # NL) => out = s
            /\ (\A k \in 2..Len(s) : s[k] = HY => ~IsWord(s[k - 1])) => out = s
            /\ arg = FastEvolving =>
                   out = <<"f","a","s","t",HY,"e","v","o","l","v","i","n","g">>
            /\ arg = EndOfSentence => out = EndOfSentence
            /\ arg = DashTokens => out = DashTokens

C9_Witness ==
    /\ pc = "once"
    /\ arg = FastEvolving
    /\ ret[1] = <<"f","a","s","t",HY,"e","v","o","l","v","i","n","g">>

\* ------------------------------------------------------------------ strip_noise

\* \S
IsNonSpace(c) == ~IsSpace(c)

\* The last index of the run of non-whitespace characters that starts at i.
RunEnd(s, i) == Max({e \in i..Len(s) : \A k \in i..e : IsNonSpace(s[k])})

\* A match of \S+@\S+ starting at i: the index of its last character, or 0. Both
\* \S+ are greedy, so a match runs to the end of the run of non-whitespace.
EmailMatchEnd(s, i) ==
    IF /\ IsNonSpace(s[i])
       /\ \E k \in (i + 1)..(RunEnd(s, i) - 1) : s[k] = "@"
    THEN RunEnd(s, i) ELSE 0

\* A match of https?://\S+ starting at i, or 0.
UrlMatchEnd(s, i) ==
    LET p == IF i + 4 <= Len(s) /\ s[i + 4] = "s" THEN i + 5 ELSE i + 4
    IN  IF /\ p + 3 <= Len(s)
           /\ SubSeq(s, i, i + 3) = <<"h","t","t","p">>
           /\ SubSeq(s, p, p + 2) = <<":","/","/">>
           /\ IsNonSpace(s[p + 3])
        THEN RunEnd(s, p + 3) ELSE 0

\* [\d\-\s\(\)]
IsPhoneFiller(c) == c \in Digits \/ c \in {HY, "(", ")"} \/ IsSpace(c)

\* A match of \+?\d[\d\-\s\(\)]{6,}\d starting at i, or 0: the filler is greedy,
\* so the match ends at the last digit the filler run can give back.
PhoneMatchEnd(s, i) ==
    LET p == IF s[i] = "+" THEN i + 1 ELSE i
        R == {r \in (p + 7)..Len(s) :
                /\ s[p] \in Digits
                /\ \A k \in (p + 1)..(r - 1) : IsPhoneFiller(s[k])
                /\ s[r] \in Digits}
    IN  IF R = {} THEN 0 ELSE Max(R)

\* re.sub(r"\S+@\S+", " ", s) from the index i on: the leftmost match becomes
\* one space and the scan resumes after it.
RECURSIVE SubEmailsFrom(_, _)
SubEmailsFrom(s, i) ==
    IF i > Len(s) THEN <<>>
    ELSE LET e == EmailMatchEnd(s, i)
         IN  IF e > 0
             THEN <<SP>> \o SubEmailsFrom(s, e + 1)
             ELSE <<s[i]>> \o SubEmailsFrom(s, i + 1)

SubEmails(s) == SubEmailsFrom(s, 1)

\* re.sub(r"https?://\S+", " ", s) from the index i on: the leftmost match becomes
\* one space and the scan resumes after it.
RECURSIVE SubUrlsFrom(_, _)
SubUrlsFrom(s, i) ==
    IF i > Len(s) THEN <<>>
    ELSE LET e == UrlMatchEnd(s, i)
         IN  IF e > 0
             THEN <<SP>> \o SubUrlsFrom(s, e + 1)
             ELSE <<s[i]>> \o SubUrlsFrom(s, i + 1)

SubUrls(s) == SubUrlsFrom(s, 1)

\* re.sub(r"\+?\d[\d\-\s\(\)]{6,}\d", " ", s) from the index i on: the leftmost match becomes
\* one space and the scan resumes after it.
RECURSIVE SubPhonesFrom(_, _)
SubPhonesFrom(s, i) ==
    IF i > Len(s) THEN <<>>
    ELSE LET e == PhoneMatchEnd(s, i)
         IN  IF e > 0
             THEN <<SP>> \o SubPhonesFrom(s, e + 1)
             ELSE <<s[i]>> \o SubPhonesFrom(s, i + 1)

SubPhones(s) == SubPhonesFrom(s, 1)

\* The three substitutions of strip_noise, in its order.
Substitute(s) == SubPhones(SubUrls(SubEmails(s)))

\* re.search(r"[a-z]", ln)
HasLower(ln) == \E k \in 1..Len(ln) : ln[k] \in Lower

strip_noise(text) ==
    JoinLines(SelectSeq(SplitLines(Substitute(normalize_text(text))), HasLower))

\* ------------------------------------------------------------------ strip_noise, applied

MaxStripLen == 9

StripAlphabet == {"a", "1", NL}

ContactLine ==
    <<"C","O","N","T","A","C","T",":",SP,"j","o","h","n","@","x",".","c","o","m",",",SP,
      "+","1",SP,"(","5","5","5",")",SP,"1","2","3",HY,"4","5","6","7">>

StripExamples ==
    { ContactLine,
      <<"a","@","b",SP,"c",NL,"h","t","t","p",":","/","/","x",".","y",SP,"z",NL,"A","B","C",NL,"d">>,
      <<"s","e","e",SP,"h","t","t","p","s",":","/","/","x",NL,"o","k">>,
      <<"c","a","l","l",SP,"+","1","2","3",HY,"4","5","6","7",SP,"n","o","w">> }

StripInputs == Texts(StripAlphabet, MaxStripLen) \cup StripExamples

InitStrip ==
    /\ pc = "call"
    /\ arg \in StripInputs
    /\ ret = <<>>
    /\ NoRun

\* clean = strip_noise(raw)
StripNoise ==
    /\ pc = "call"
    /\ ret' = <<strip_noise(arg)>>
    /\ pc' = "stripped"
    /\ UNCHANGED <<arg, runVars>>

NextStrip == StripNoise

SpecStrip == InitStrip /\ [][NextStrip]_vars

\* C10: strip_noise works line by line: the substitutions neither merge nor split
\* lines, so the output is, in order and each on its own line, the substituted form
\* of every line of the normalized input that still holds a lowercase letter.
C10_PerLine ==
    pc = "stripped" =>
        LET lines == SplitLines(normalize_text(arg))
            subst == [k \in 1..Len(lines) |-> Substitute(lines[k])]
        IN  ret[1] = JoinLines(SelectSeq(subst, HasLower))

\* ------------------------------------------------------------------ _idx_to_line_col

_idx_to_line_col_FromLastNewline(text, idx) ==
    LET line == PyCount(text, NL, idx) + 1
        last_nl == PyRFind(text, NL, idx)
        col == idx - last_nl + 1
    IN  <<line, col>>

_idx_to_line_col(text, idx) ==
    LET line == PyCount(text, NL, idx) + 1
        last_nl == PyRFind(text, NL, idx)
        col == idx - (last_nl + 1) + 1
    IN  <<line, col>>

\* ------------------------------------------------------------------ pretty_print_errors

\* Whether s[i:j] raises: a slice clamps its bounds, where an index would raise.
PyIndexRaises(s, i, j) == i > Len(s) \/ j > Len(s)

PySliceRaises(s, i, j) == FALSE

\* c * n: the empty string for n <= 0.
Repeat(c, n) == [k \in 1..n |-> c]

\* ", ".join(sugg_list[:5]) or "<none>", as the suggestions the separator joins:
\* the joined text is empty, and the placeholder printed, for no suggestion and
\* for a single empty one.
Suggestions(m) ==
    LET shown == PySlice(m.replacements, 0, 5)
    IN  IF shown = <<>> \/ shown = <<"">> THEN <<"<none>">> ELSE shown

\* The source line of the block: text[line_start:line_end].rstrip("\r\n")
LineText(text, offset) ==
    LET line_start == PyRFind(text, NL, offset) + 1
        found == PyFind(text, NL, offset)
        line_end == IF found = -1 THEN Len(text) ELSE found
    IN  PyRStripCRLF(PySlice(text, line_start, line_end))

CaretFromTextStart(text, offset, err_len) ==
    Repeat(SP, offset) \o Repeat("^", IF err_len > 1 THEN err_len ELSE 1)

\* " " * (offset - line_start) + "^" * max(1, err_len)
Caret(text, offset, err_len) ==
    LET line_start == PyRFind(text, NL, offset) + 1
    IN  Repeat(SP, offset - line_start) \o Repeat("^", IF err_len > 1 THEN err_len ELSE 1)

\* The block printed for the i-th issue (snippet, m).
RenderIssue(text, i, m) ==
    LET offset == m.offset
        err_len == IF m.errorLength = 0 THEN 1 ELSE m.errorLength
        lc == _idx_to_line_col(text, offset)
    IN  [index |-> i, line |-> lc[1], col |-> lc[2], rule_id |-> m.ruleId,
         line_text |-> LineText(text, offset),
         caret |-> Caret(text, offset, err_len),
         suggestions |-> Suggestions(m),
         raised |-> \/ PySliceRaises(text, 0, offset)
                    \/ PySliceRaises(text, offset, offset + err_len)]

\* ------------------------------------------------------------------ compute_language_score

ERROR_WEIGHT == 5

IGNORE_RULES_WithoutWhitespace ==
    {"COMMA_PARENTHESIS_WHITESPACE", "PUNCTUATION_PARAGRAPH_END",
     "UPPERCASE_SENTENCE_START", "HYPHENATION"}

IGNORE_RULES ==
    {"WHITESPACE_RULE", "COMMA_PARENTHESIS_WHITESPACE", "PUNCTUATION_PARAGRAPH_END",
     "UPPERCASE_SENTENCE_START", "HYPHENATION"}

\* The flagged snippet of a match, as lines 148-153 extract it.
Snippet(text, m) ==
    IF m.errorLength # 0
    THEN PyStrip(PySlice(text, m.offset, m.offset + m.errorLength))
    ELSE IF PyStrip(m.context) # <<>>
         THEN PyStrip(m.context)
         ELSE PyStrip(PySlice(text, m.offset, m.offset + 40))

\* The loop of lines 142-159: the (snippet, m) pairs that are kept, in raw order.
RECURSIVE FilterMatches(_, _, _)
FilterMatches(text, allowed, ms) ==
    IF ms = <<>> THEN <<>>
    ELSE LET m == Head(ms)
             rest == FilterMatches(text, allowed, Tail(ms))
         IN  IF m.ruleId \in IGNORE_RULES THEN rest
             ELSE IF PyLower(Snippet(text, m)) \in allowed THEN rest
             ELSE <<[snippet |-> Snippet(text, m), m |-> m]>> \o rest

\* list.sort(key=offset) is stable: an element goes after every element whose
\* offset is not greater than its own.
InsertByOffsetBeforeEquals(sorted, e) ==
    LET k == Cardinality({j \in 1..Len(sorted) : sorted[j].m.offset < e.m.offset})
    IN  SubSeq(sorted, 1, k) \o <<e>> \o SubSeq(sorted, k + 1, Len(sorted))

InsertByOffset(sorted, e) ==
    LET k == Cardinality({j \in 1..Len(sorted) : sorted[j].m.offset <= e.m.offset})
    IN  SubSeq(sorted, 1, k) \o <<e>> \o SubSeq(sorted, k + 1, Len(sorted))

RECURSIVE SortByOffset(_)
SortByOffset(es) ==
    IF es = <<>> THEN <<>>
    ELSE InsertByOffset(SortByOffset(SubSeq(es, 1, Len(es) - 1)), es[Len(es)])

\* len(re.findall(r"\w+", text)): the maximal runs of word characters.
WordCount(text) ==
    Cardinality({k \in 1..Len(text) : IsWord(text[k]) /\ (k = 1 \/ ~IsWord(text[k - 1]))})

\* Exact fractions [num, den], den > 0, in lowest terms.
RECURSIVE GCD(_, _)
GCD(a, b) == IF b = 0 THEN a ELSE GCD(b, a % b)

Abs(x) == IF x < 0 THEN -x ELSE x

Frac(n, d) == LET g == GCD(Abs(n), d) IN [num |-> n \div g, den |-> d \div g]

\* (len(errors) / wc * 100) if wc else 0
ErrPer100(n, wc) == IF wc # 0 THEN Frac(n * 100, wc) ELSE Frac(0, 1)

ScoreUnfloored(e) == Frac(100 * e.den - ERROR_WEIGHT * e.num, e.den)

\* max(0.0, 100.0 - (ERROR_WEIGHT * err_per_100))
QualityScore(e) ==
    LET x == Frac(100 * e.den - ERROR_WEIGHT * e.num, e.den)
    IN  IF x.num < 0 THEN Frac(0, 1) ELSE x

Summary(text, es) ==
    [wc |-> WordCount(text), errors |-> Len(es),
     err_per_100 |-> ErrPer100(Len(es), WordCount(text)),
     score |-> QualityScore(ErrPer100(Len(es), WordCount(text)))]

\* ------------------------------------------------------------------ main

\* The maximal runs of non-whitespace characters of a text.
Tokens(text) ==
    {SubSeq(text, i, RunEnd(text, i)) :
        i \in {k \in 1..Len(text) :
                  IsNonSpace(text[k]) /\ (k = 1 \/ IsSpace(text[k - 1]))}}

\* The project names pkg_resources.working_set lists.
InstalledProjects == {<<"P","y","Y","A","M","L">>, <<"A","a">>}

\* get_installed_libraries()
get_installed_libraries == {PyLower(n) : n \in InstalledProjects}

\* {"yourTerm".lower(), "AnotherAcronym".lower()}
ManualTerms ==
    {PyLower(<<"y","o","u","r","T","e","r","m">>),
     PyLower(<<"A","n","o","t","h","e","r","A","c","r","o","n","y","m">>)}

\* allowed_lower = {e.lower() for e in allowed}
LowerAllNot(ents) == ents

LowerAll(ents) == {PyLower(e) : e \in ents}

MaxEntities == 1
MaxMatches == 2

Rules == {"WHITESPACE_RULE", "MORFOLOGIK_RULE_EN_US"}

Match(o, l, r, c) ==
    [offset |-> o, errorLength |-> l, ruleId |-> r, context |-> c, replacements |-> <<>>]

\* Matches that honour the IssueMatch invariant: the offset is an index of the
\* document and the span lies in it. The context is the text around the match,
\* which for a short document is the document.
WellFormedMatches(text) ==
    {m \in {Match(o, l, r, text) : o \in 0..(Len(text) - 1), l \in 0..Len(text), r \in Rules} :
        m.offset + m.errorLength <= Len(text)}

MatchLists(M) == UNION {[1..n -> M] : n \in 0..MaxMatches}

\* raw = open(txt_path).read(), or the error message and exit status 1
ReadFile ==
    /\ pc = "read"
    /\ IF arg.readable
       THEN raw' = arg.content /\ pc' = "entities"
       ELSE raw' = raw /\ pc' = "exit1"
    /\ UNCHANGED <<allowed_lower, clean, raw_matches, errors, summary, blocks, fault, arg, ret>>

\* allowed = extract_entities(raw); allowed_lower = {e.lower() for e in allowed}
ExtractEntities ==
    /\ pc = "entities"
    /\ \E ents \in {S \in SUBSET Tokens(raw) : Cardinality(S) <= MaxEntities} :
           allowed_lower' = LowerAll(ents)
    /\ pc' = "libraries"
    /\ UNCHANGED <<raw, clean, raw_matches, errors, summary, blocks, fault, arg, ret>>

\* allowed_lower |= get_installed_libraries(); allowed_lower |= the manual terms
AddLibraries ==
    /\ pc = "libraries"
    /\ allowed_lower' = allowed_lower \cup get_installed_libraries \cup ManualTerms
    /\ pc' = "strip"
    /\ UNCHANGED <<raw, clean, raw_matches, errors, summary, blocks, fault, arg, ret>>

\* clean = strip_noise(raw)
CleanDocument ==
    /\ pc = "strip"
    /\ clean' = strip_noise(raw)
    /\ pc' = "check"
    /\ UNCHANGED <<raw, allowed_lower, raw_matches, errors, summary, blocks, fault, arg, ret>>

\* raw_matches = tool.check(text), the checker answering with well-formed matches
Check ==
    /\ pc = "check"
    /\ raw_matches' \in MatchLists(WellFormedMatches(clean))
    /\ pc' = "score"
    /\ UNCHANGED <<raw, allowed_lower, clean, errors, summary, blocks, fault, arg, ret>>

\* Lines 142-175 of compute_language_score: filter, sort, score, print the summary.
Score ==
    /\ pc = "score"
    /\ errors' = SortByOffset(FilterMatches(clean, allowed_lower, raw_matches))
    /\ summary' = Summary(clean, errors')
    /\ pc' = IF errors' # <<>> THEN "print" ELSE "done"
    /\ UNCHANGED <<raw, allowed_lower, clean, raw_matches, blocks, fault, arg, ret>>

\* One turn of the loop of pretty_print_errors: the block of the next issue.
PrintIssue ==
    /\ pc = "print"
    /\ LET i == Len(blocks) + 1
           b == RenderIssue(clean, i, errors[i].m)
       IN  IF b.raised
           THEN /\ fault' = "pretty_print_errors"
                /\ pc' = "raised"
                /\ blocks' = blocks
           ELSE /\ blocks' = Append(blocks, b)
                /\ pc' = IF i = Len(errors) THEN "done" ELSE "print"
                /\ fault' = fault
    /\ UNCHANGED <<raw, allowed_lower, clean, raw_matches, errors, summary, arg, ret>>

MaxDocLen == 2

DocAlphabet == {"a", "B", SP}

Files(docs) ==
    {[readable |-> FALSE, content |-> <<>>]} \cup {[readable |-> TRUE, content |-> d] : d \in docs}

Init ==
    /\ pc = "read"
    /\ arg \in Files(Texts(DocAlphabet, MaxDocLen))
    /\ ret = <<>>
    /\ NoRun

\* No try/except surrounds the calls of lines 139-140 and 187-193: an exception
\* of a collaborator leaves main at once, as a traceback, with nothing changed.
RaiseSwallowed(who) ==
    /\ fault' = who
    /\ pc' = IF who = "extract_entities" THEN "libraries"
             ELSE IF who = "get_installed_libraries" THEN "strip"
             ELSE "score"
    /\ UNCHANGED <<raw, allowed_lower, clean, raw_matches, errors, summary, blocks, arg, ret>>

Raise(who) ==
    /\ fault' = who
    /\ pc' = "raised"
    /\ UNCHANGED <<raw, allowed_lower, clean, raw_matches, errors, summary, blocks, arg, ret>>

\* Line 187: the spaCy pipeline raises inside extract_entities.
ExtractEntitiesFails ==
    /\ pc = "entities"
    /\ Raise("extract_entities")

\* Line 188: reading pkg_resources.working_set raises.
AddLibrariesFails ==
    /\ pc = "libraries"
    /\ Raise("get_installed_libraries")

\* Lines 139-140: starting LanguageTool, or its check request, raises.
CheckFails ==
    /\ pc = "check"
    /\ Raise("check")

Collaborators == {"extract_entities", "get_installed_libraries", "check"}

Next ==
    \/ ReadFile
    \/ ExtractEntities
    \/ ExtractEntitiesFails
    \/ AddLibraries
    \/ AddLibrariesFails
    \/ CleanDocument
    \/ Check
    \/ CheckFails
    \/ Score
    \/ PrintIssue

Spec == Init /\ [][Next]_vars

\* The summary has been printed: compute_language_score is past its line 172.
Scored == pc \in {"print", "done"}

\* The retained (snippet, m) pairs with the offset o, in their order.
AtOffset(es, o) == SelectSeq(es, LAMBDA e : e.m.offset = o)

\* C1: the issue list is the retained matches in ascending order of offset, and
\* retained matches of equal offset keep the order they had in the raw list.
C1_SortedStable ==
    Scored =>
        LET kept == FilterMatches(clean, allowed_lower, raw_matches)
        IN  /\ \A i \in 1..(Len(errors) - 1) : errors[i].m.offset <= errors[i + 1].m.offset
            /\ Len(errors) = Len(kept)
            /\ \A o \in 0..Len(clean) : AtOffset(errors, o) = AtOffset(kept, o)

C1_Witness ==
    /\ Scored
    /\ Len(errors) = 2
    /\ raw_matches[1].offset > raw_matches[2].offset
    /\ errors[1].m = raw_matches[2]
    /\ errors[2].m = raw_matches[1]

\* The text a match flags: the span of the cleaned text, or for a match without a
\* length the fallback snippet.
Flagged(m) ==
    IF m.errorLength > 0
    THEN SubSeq(clean, m.offset + 1, m.offset + m.errorLength)
    ELSE Snippet(clean, m)

AllowListed(m) == \E a \in allowed_lower : PyLower(Flagged(m)) = PyLower(a)

\* C2: a raw match whose flagged snippet equals an entry of the allow-list, letter
\* case aside, is not in the issue list and not counted, whatever its rule.
C2_AllowListSuppresses ==
    Scored =>
        /\ \A k \in 1..Len(raw_matches) :
               AllowListed(raw_matches[k]) =>
                   \A j \in 1..Len(errors) : errors[j].m # raw_matches[k]
        /\ summary.errors <=
               Cardinality({k \in 1..Len(raw_matches) : ~AllowListed(raw_matches[k])})

C2_Witness ==
    /\ Scored
    /\ \E k \in 1..Len(raw_matches) :
           /\ raw_matches[k].ruleId \notin IGNORE_RULES
           /\ AllowListed(raw_matches[k])
           /\ PyLower(Flagged(raw_matches[k])) # Flagged(raw_matches[k])
           /\ \A j \in 1..Len(errors) : errors[j].m # raw_matches[k]

CosmeticRuleIds ==
    {"WHITESPACE_RULE", "COMMA_PARENTHESIS_WHITESPACE", "PUNCTUATION_PARAGRAPH_END",
     "UPPERCASE_SENTENCE_START", "HYPHENATION"}

\* C3: a raw match whose rule is one of the cosmetic rules is never in the issue
\* list and never counted, whatever its snippet and whatever the allow-list holds.
C3_CosmeticSuppressed ==
    Scored =>
        /\ \A j \in 1..Len(errors) : errors[j].m.ruleId \notin CosmeticRuleIds
        /\ summary.errors <=
               Cardinality({k \in 1..Len(raw_matches) :
                              raw_matches[k].ruleId \notin CosmeticRuleIds})

C3_Witness ==
    /\ Scored
    /\ \E k \in 1..Len(raw_matches) :
           /\ raw_matches[k].ruleId = "WHITESPACE_RULE"
           /\ Snippet(clean, raw_matches[k]) # <<>>
           /\ PyLower(Snippet(clean, raw_matches[k])) \notin allowed_lower
           /\ \A j \in 1..Len(errors) : errors[j].m # raw_matches[k]

\* The (offset, length, rule) of a retained issue: what makes two matches duplicates.
Identity(e) == <<e.m.offset, e.m.errorLength, e.m.ruleId>>

\* C11: the issue list is deduplicated. Of two raw matches with the same offset,
\* the same length and the same rule it holds one only, and errorCount counts
\* that one once.
C11_Deduplicated ==
    Scored =>
        /\ \A i, j \in 1..Len(errors) : Identity(errors[i]) = Identity(errors[j]) => i = j
        /\ summary.errors = Cardinality({Identity(errors[i]) : i \in 1..Len(errors)})

\* The input the run was given is unreadable or has no character.
InputError == ~arg.readable \/ arg.content = <<>>

\* The run is past line 187 (the extractor was called) or past line 140 (the
\* checker was called).
ExtractorCalled == pc \in {"libraries", "strip", "check", "score", "print", "done"}
                       \/ fault \in Collaborators
CheckerCalled == pc \in {"score", "print", "done"} \/ fault = "check"

\* C12: on an unreadable or empty document the run stops with an input error:
\* neither the entity extractor nor the grammar checker is called and no
\* summary with a quality score is printed.
C12_InputErrorStopsRun ==
    InputError =>
        /\ ~ExtractorCalled
        /\ ~CheckerCalled
        /\ ~Scored
        /\ DOMAIN summary = {}

\* C13: a failure of the extractor, of the library enumerator or of the checker
\* leaves the run: the run stands at the raise, with the collaborator not called
\* again and no later stage run on a reduced allow-list or an empty issue list:
\* no issue list is built, no summary and no issue block is printed.
C13_FailurePropagates ==
    fault \in Collaborators =>
        /\ pc = "raised"
        /\ ~ENABLED Next
        /\ DOMAIN summary = {}
        /\ errors = <<>>
        /\ blocks = <<>>
        /\ raw_matches = <<>>

C13_Witness ==
    /\ fault = "check"
    /\ pc = "raised"
    /\ clean # <<>>
    /\ allowed_lower # {}

\* ------------------------------------------------------------------ the report of malformed matches

MaxReportLen == 3
MaxErrLen == 2

ReportAlphabet == {"a", NL}

\* Matches as a checker out of step with the document may give them: an offset up
\* to one past the end of the document, a length that may run past it.
AnyMatches(text) ==
    {Match(o, l, "MORFOLOGIK_RULE_EN_US", text) : o \in 0..(Len(text) + 1), l \in 0..MaxErrLen}

\* raw_matches = tool.check(text), the checker answering with any matches
CheckAny ==
    /\ pc = "check"
    /\ raw_matches' \in MatchLists(AnyMatches(clean))
    /\ pc' = "score"
    /\ UNCHANGED <<raw, allowed_lower, clean, errors, summary, blocks, fault, arg, ret>>

InitReport ==
    /\ pc = "read"
    /\ arg \in Files(Texts(ReportAlphabet, MaxReportLen))
    /\ ret = <<>>
    /\ NoRun

NextReport ==
    \/ ReadFile
    \/ ExtractEntities
    \/ ExtractEntitiesFails
    \/ AddLibraries
    \/ AddLibrariesFails
    \/ CleanDocument
    \/ CheckAny
    \/ CheckFails
    \/ Score
    \/ PrintIssue

SpecReport == InitReport /\ [][NextReport]_vars

\* The end of the line of the cleaned text that holds the offset.
LineEndOf(offset) ==
    IF \E k \in (offset + 1)..Len(clean) : clean[k] = NL
    THEN Min({k \in (offset + 1)..Len(clean) : clean[k] = NL}) - 1
    ELSE Len(clean)

\* C6: when the length of an issue runs past the end of its source line, the caret
\* line is clamped: its spaces and carets are no longer than the printed line.
C6_CaretClamped ==
    \A i \in 1..Len(blocks) :
        LET m == errors[i].m
        IN  (m.offset < Len(clean) /\ m.offset + m.errorLength > LineEndOf(m.offset))
                => Len(blocks[i].caret) <= Len(blocks[i].line_text)

\* C7: every retained issue gets its block, also one whose offset or span lies
\* beyond its line or the document: rendering never raises, and the issues after
\* a malformed one are rendered too.
C7_ReportNeverAborts ==
    /\ fault # "pretty_print_errors"
    /\ pc = "print" => Len(blocks) < Len(errors)
    /\ Len(blocks) > 0 => pc \in {"print", "done"}
    /\ (pc = "done" /\ errors # <<>>) =>
            /\ Len(blocks) = Len(errors)
            /\ \A i \in 1..Len(blocks) :
                   /\ blocks[i].index = i
                   /\ blocks[i].rule_id = errors[i].m.ruleId
                   /\ blocks[i].line = _idx_to_line_col(clean, errors[i].m.offset)[1]

C7_Witness ==
    /\ pc = "done"
    /\ Len(blocks) = 2
    /\ errors[1].m.offset + errors[1].m.errorLength > LineEndOf(errors[1].m.offset)
    /\ errors[2].m.offset > Len(clean)

\* ------------------------------------------------------------------ _idx_to_line_col, applied

MaxLineColLen == 5

AbcDefGhi == <<"a","b","c",NL,"d","e","f",NL,"g","h","i">>

LineColTexts == Texts(ReportAlphabet, MaxLineColLen) \cup {AbcDefGhi}

InitLineCol ==
    /\ pc = "call"
    /\ arg \in UNION {{[text |-> t, idx |-> i] : i \in 0..Len(t)} : t \in LineColTexts}
    /\ ret = <<>>
    /\ NoRun

\* line, col = _idx_to_line_col(text, offset)
MapOffset ==
    /\ pc = "call"
    /\ ret' = _idx_to_line_col(arg.text, arg.idx)
    /\ pc' = "mapped"
    /\ UNCHANGED <<arg, runVars>>

NextLineCol == MapOffset

SpecLineCol == InitLineCol /\ [][NextLineCol]_vars

\* C5: for an offset within the text, line is one more than the number of newlines
\* before the offset and col is the 1-based distance of the offset from the start
\* of its line; in "abc\ndef\nghi" offset 4 is (2, 1) and offset 9 is (3, 2).
C5_LineCol ==
    pc = "mapped" =>
        LET t == arg.text
            i == arg.idx
            line == ret[1]
            col == ret[2]
            start == i - col + 1
        IN  /\ line = Cardinality({k \in 1..i : t[k] = NL}) + 1
            /\ col >= 1
            /\ start >= 0
            /\ start = 0 \/ t[start] = NL
            /\ \A k \in (start + 1)..i : t[k] # NL
            /\ (t = AbcDefGhi /\ i = 4) => (line = 2 /\ col = 1)
            /\ (t = AbcDefGhi /\ i = 9) => (line = 3 /\ col = 2)

C5_Witness ==
    /\ pc = "mapped"
    /\ arg.text = AbcDefGhi
    /\ arg.idx = 9
    /\ ret = <<3, 2>>

\* ------------------------------------------------------------------ the score formula, applied

MaxWords == 200
MaxErrors == 100

InitFormula ==
    /\ pc = "call"
    /\ arg \in [wc : 0..MaxWords, errors : 0..MaxErrors]
    /\ ret = <<>>
    /\ NoRun

\* Lines 166-167 for wc words and a list of arg.errors issues.
ComputeScore ==
    /\ pc = "call"
    /\ ret' = <<ErrPer100(arg.errors, arg.wc), QualityScore(ErrPer100(arg.errors, arg.wc))>>
    /\ pc' = "scored"
    /\ UNCHANGED <<arg, runVars>>

NextFormula == ComputeScore

SpecFormula == InitFormula /\ [][NextFormula]_vars

\* C4: errorsPer100Words is errorCount / wordCount * 100, or 0 without words, and
\* qualityScore is max(0, 100 - 5 * errorsPer100Words): it lies within [0, 100],
\* is 0 for 10 words and 100 errors, and is 100 whenever there are no words.
C4_ScoreFormula ==
    pc = "scored" =>
        LET e == ret[1]
            q == ret[2]
            raw_num == 100 * e.den - 5 * e.num
        IN  /\ e.den > 0 /\ q.den > 0
            /\ arg.wc > 0 => e.num * arg.wc = arg.errors * 100 * e.den
            /\ arg.wc = 0 => e.num = 0
            /\ q.num * e.den = q.den * (IF raw_num > 0 THEN raw_num ELSE 0)
            /\ 0 <= q.num /\ q.num <= 100 * q.den
            /\ (arg.wc = 10 /\ arg.errors = 100) => q.num = 0
            /\ (arg.wc = 200 /\ arg.errors = 4) => (e.num = 2 * e.den /\ q.num = 90 * q.den)
            /\ arg.wc = 0 => q.num = 100 * q.den

C4_Witness ==
    /\ pc = "scored"
    /\ arg.wc = 10
    /\ arg.errors = 100
    /\ ret[1] = [num |-> 1000, den |-> 1]
    /\ ret[2] = [num |-> 0, den |-> 1]

\* ================================================================== CV_score_quality.py

\* substr in s
PyContains(s, substr) ==
    \E k \in 0..(Len(s) - Len(substr)) : PySlice(s, k, k + Len(substr)) = substr

\* s.split(): the maximal runs of non-whitespace characters.
RECURSIVE PySplit(_)
PySplit(s) ==
    LET K == {k \in 1..Len(s) : ~IsSpace(s[k])}
    IN  IF K = {} THEN <<>>
        ELSE LET a == Min(K)
                 E == {k \in a..Len(s) : IsSpace(s[k])}
                 b == IF E = {} THEN Len(s) + 1 ELSE Min(E)
             IN  <<SubSeq(s, a, b - 1)>> \o PySplit(SubSeq(s, b, Len(s)))

\* token.split("/", 1)[0]
BeforeSlash(token) ==
    LET n == PyFind(token, "/", 0)
    IN  IF n = -1 THEN token ELSE PySlice(token, 0, n)

\* token.rstrip("%")
RECURSIVE PyRStripPercent(_)
PyRStripPercent(s) ==
    IF s # <<>> /\ s[Len(s)] = "%" THEN PyRStripPercent(SubSeq(s, 1, Len(s) - 1)) ELSE s

DigitVal(c) == CHOOSE n \in 0..9 : <<"0","1","2","3","4","5","6","7","8","9">>[n + 1] = c

\* int(ds) of a string of decimal digits; 0 for the empty string.
RECURSIVE DigitsValue(_)
DigitsValue(ds) ==
    IF ds = <<>> THEN 0
    ELSE 10 * DigitsValue(SubSeq(ds, 1, Len(ds) - 1)) + DigitVal(ds[Len(ds)])

RECURSIVE Pow10(_)
Pow10(n) == IF n = 0 THEN 1 ELSE 10 * Pow10(n - 1)

\* float(token) over the decimal literals [+-]digits[.digits] with a digit on
\* at least one side of the point: the value as an exact fraction, or the
\* ValueError. (Exponents, inf, nan and digit separators are not in the outputs
\* modelled.)
PyFloat(token) ==
    LET signed == token # <<>> /\ token[1] \in {"+", "-"}
        body == IF signed THEN Tail(token) ELSE token
        dot == PyFind(body, ".", 0)
        int == IF dot = -1 THEN body ELSE PySlice(body, 0, dot)
        frac == IF dot = -1 THEN <<>> ELSE PySlice(body, dot + 1, Len(body))
        wellFormed == /\ \A k \in 1..Len(int) : int[k] \in Digits
                      /\ \A k \in 1..Len(frac) : frac[k] \in Digits
                      /\ Len(int) + Len(frac) > 0
        n == DigitsValue(int \o frac)
    IN  IF wellFormed
        THEN [ValueError |-> FALSE,
              value |-> Frac(IF signed /\ token[1] = "-" THEN -n ELSE n, Pow10(Len(frac)))]
        ELSE [ValueError |-> TRUE, value |-> Frac(0, 1)]

\* extract_pct(output, marker): the number that ends the first line holding the
\* marker, without what follows a slash and without trailing percent signs; 0.0
\* when it is no number and when no line holds the marker.
RECURSIVE ExtractFromLines(_, _)
ExtractFromLines(lines, marker) ==
    IF lines = <<>> THEN Frac(0, 1)
    ELSE IF PyContains(Head(lines), marker)
         THEN LET words == PySplit(Head(lines))
                  token == PyRStripPercent(BeforeSlash(words[Len(words)]))
                  f == PyFloat(token)
              IN  IF f.ValueError THEN Frac(0, 1) ELSE f.value
         ELSE ExtractFromLines(Tail(lines), marker)

extract_pct(output, marker) == ExtractFromLines(SplitLines(output), marker)

\* str(e) of a CalledProcessError (abridged to its last words).
StrOfError == <<"e", "x", "i", "t", SP, "s", "t", "a", "t", "u", "s", SP, "1", ".">>

\* safe_run(cmd) for a child that ended with the given exit status and captured
\* standard output: check_output raises CalledProcessError on a status other than 0.
safe_run(child) ==
    IF child.returncode = 0
    THEN [ok |-> TRUE, out |-> child.stdout]
    ELSE [ok |-> FALSE, out |-> IF child.stdout # <<>> THEN child.stdout ELSE StrOfError]

\* The markers main looks for.
StructureMarker == <<"S", "t", "r", "u", "c", "t", "u", "r", "e", SP, "S", "c", "o", "r", "e">>
LanguageMarker == <<"Q", "u", "a", "l", "i", "t", "y", SP, "S", "c", "o", "r", "e">>
PresentationMarker == <<"P", "r", "e", "s", "e", "n", "t", "a", "t", "i", "o", "n", SP, "S", "c", "o", "r", "e">>

\* What CV_scoring_structure.py may have printed: its score line alone, after other
\* lines, with a score above 100, with no number, and nothing.
StructureOutputs ==
    {<<"S", "t", "r", "u", "c", "t", "u", "r", "e", SP, "S", "c", "o", "r", "e", ":", SP, "3", "/", "4", SP, "-", ">", SP, "7", "5", ".", "0", "%", NL, NL>>,
     <<"P", "r", "e", "s", "e", "n", "t", SP, "s", "e", "c", "t", "i", "o", "n", "s", SP, "(", "4", "/", "4", ")", ":", SP, "e", "m", "a", "i", "l", NL, "S", "t", "r", "u", "c", "t", "u", "r", "e", SP, "S", "c", "o", "r", "e", ":", SP, "4", "/", "4", SP, "-", ">", SP, "1", "0", "0", ".", "0", "%", NL, NL, "S", "e", "c", "t", "i", "o", "n", SP, "C", "o", "n", "t", "e", "n", "t", "s", NL>>,
     <<"S", "t", "r", "u", "c", "t", "u", "r", "e", SP, "S", "c", "o", "r", "e", ":", SP, "6", "/", "4", SP, "-", ">", SP, "1", "5", "0", ".", "0", "%", NL>>,
     <<"S", "t", "r", "u", "c", "t", "u", "r", "e", SP, "S", "c", "o", "r", "e", ":", SP, "n", "/", "a", NL>>,
     <<>>}

\* What CV_Language_score.py may have printed.
LanguageOutputs ==
    {<<"W", "o", "r", "d", SP, "C", "o", "u", "n", "t", ":", SP, SP, SP, SP, SP, SP, SP, SP, SP, SP, SP, SP, SP, SP, SP, "2", "0", "0", NL, "L", "a", "n", "g", "u", "a", "g", "e", SP, "Q", "u", "a", "l", "i", "t", "y", SP, "S", "c", "o", "r", "e", ":", SP, SP, SP, "9", "0", ".", "0", "/", "1", "0", "0", NL, NL>>,
     <<"L", "a", "n", "g", "u", "a", "g", "e", SP, "Q", "u", "a", "l", "i", "t", "y", SP, "S", "c", "o", "r", "e", ":", SP, SP, SP, "8", "7", ".", "5", "/", "1", "0", "0", NL, NL>>,
     <<"L", "a", "n", "g", "u", "a", "g", "e", SP, "Q", "u", "a", "l", "i", "t", "y", SP, "S", "c", "o", "r", "e", ":", SP, SP, SP, "0", ".", "0", "/", "1", "0", "0", NL, NL>>,
     <<"Q", "u", "a", "l", "i", "t", "y", SP, "S", "c", "o", "r", "e", NL>>}

\* What CV_presentation_scoring.py may have printed.
PresentationOutputs ==
    {<<"P", "r", "e", "s", "e", "n", "t", "a", "t", "i", "o", "n", SP, "d", "i", "m", "e", "n", "s", "i", "o", "n", SP, "s", "c", "o", "r", "e", "s", SP, "&", SP, "s", "u", "g", "g", "e", "s", "t", "i", "o", "n", "s", ":", NL, NL, SP, "P", "r", "e", "s", "e", "n", "t", "a", "t", "i", "o", "n", SP, "S", "c", "o", "r", "e", ":", SP, "8", "4", ".", "0", "/", "1", "0", "0", NL>>,
     <<SP, "P", "r", "e", "s", "e", "n", "t", "a", "t", "i", "o", "n", SP, "S", "c", "o", "r", "e", ":", SP, "8", "4", ".", "5", "/", "1", "0", "0", NL>>,
     <<SP, "P", "r", "e", "s", "e", "n", "t", "a", "t", "i", "o", "n", SP, "S", "c", "o", "r", "e", ":", SP, "1", "0", "0", ".", "0", "/", "1", "0", "0", NL>>,
     <<>>}

\* What data_preparation_CV.py may have printed.
PrepOutputs ==
    {<<"E", "x", "t", "r", "a", "c", "t", "e", "d", SP, "t", "e", "x", "t", SP, "w", "r", "i", "t", "t", "e", "n", SP, "t", "o", SP, "r", "e", "s", "u", "m", "e", ".", "t", "x", "t", NL>>,
     <<>>}

\* A child process as it ended: exit status and captured standard output.
ChildRuns(outputs) == {[returncode |-> c, stdout |-> o] : c \in {0, 1}, o \in outputs}

\* A component of main: the percentage parsed from the output of a step that
\* succeeded, 0.0 for a step that failed.
ComponentParsedAnyway(r, marker) == extract_pct(r.out, marker)

Component(r, marker) == IF r.ok THEN extract_pct(r.out, marker) ELSE Frac(0, 1)

\* struct_pct * 0.5 + lang_pct * 0.4 + pres_pct * 0.1, exactly.
WeightedSum(s, l, p) ==
    Frac(5 * s.num * l.den * p.den + 4 * l.num * s.den * p.den + p.num * s.den * l.den,
         10 * s.den * l.den * p.den)

\* round(x, 1): the multiple of 0.1 nearest to x. Where x lies halfway between
\* two of them the float sum lies a rounding error to one side or exactly on the
\* tie, and the result is one of the two neighbours.
PyRound1(x) ==
    LET f == (10 * x.num) \div x.den
    IN  {Frac(o, 10) : o \in {c \in {f, f + 1} : 2 * Abs(c * x.den - 10 * x.num) <= x.den}}

\* The locals of main before any is assigned, and the steps run so far.
NoScores ==
    [struct_pct |-> Frac(0, 1), lang_pct |-> Frac(0, 1), pres_pct |-> Frac(0, 1),
     overall |-> Frac(0, 1), steps |-> <<>>]

InitQuality ==
    /\ pc = "exists"
    /\ arg \in [exists : BOOLEAN]
    /\ ret = NoScores
    /\ NoRun

\* Lines 80-84: a missing file ends the run with exit status 1.
CheckExists ==
    /\ pc = "exists"
    /\ pc' = IF arg.exists THEN "structure" ELSE "exit1"
    /\ UNCHANGED <<runVars, arg, ret>>

\* Lines 87-93.
StructureStep ==
    /\ pc = "structure"
    /\ \E child \in ChildRuns(StructureOutputs) :
          LET r == safe_run(child)
          IN  ret' = [ret EXCEPT !.struct_pct = Component(r, StructureMarker),
                                 !.steps = Append(@, [step |-> "structure", ok |-> r.ok, out |-> r.out])]
    /\ pc' = "prepare"
    /\ UNCHANGED <<runVars, arg>>

\* Lines 96-100.
TextPreparation ==
    /\ pc = "prepare"
    /\ \E child \in ChildRuns(PrepOutputs) :
          LET r == safe_run(child)
          IN  /\ ret' = [ret EXCEPT !.steps = Append(@, [step |-> "prepare", ok |-> r.ok, out |-> r.out]),
                                    !.lang_pct = IF r.ok THEN @ ELSE Frac(0, 1),
                                    !.pres_pct = IF r.ok THEN @ ELSE Frac(0, 1)]
              /\ pc' = IF r.ok THEN "language" ELSE "aggregate"
    /\ UNCHANGED <<runVars, arg>>

\* Lines 103-109.
LanguageStep ==
    /\ pc = "language"
    /\ \E child \in ChildRuns(LanguageOutputs) :
          LET r == safe_run(child)
          IN  ret' = [ret EXCEPT !.lang_pct = Component(r, LanguageMarker),
                                 !.steps = Append(@, [step |-> "language", ok |-> r.ok, out |-> r.out])]
    /\ pc' = "presentation"
    /\ UNCHANGED <<runVars, arg>>

\* Lines 112-118.
PresentationStep ==
    /\ pc = "presentation"
    /\ \E child \in ChildRuns(PresentationOutputs) :
          LET r == safe_run(child)
          IN  ret' = [ret EXCEPT !.pres_pct = Component(r, PresentationMarker),
                                 !.steps = Append(@, [step |-> "presentation", ok |-> r.ok, out |-> r.out])]
    /\ pc' = "aggregate"
    /\ UNCHANGED <<runVars, arg>>

\* Lines 121-128.
Aggregate ==
    /\ pc = "aggregate"
    /\ \E o \in PyRound1(WeightedSum(ret.struct_pct, ret.lang_pct, ret.pres_pct)) :
          ret' = [ret EXCEPT !.overall = o]
    /\ pc' = "finished"
    /\ UNCHANGED <<runVars, arg>>

NextQuality ==
    \/ CheckExists
    \/ StructureStep
    \/ TextPreparation
    \/ LanguageStep
    \/ PresentationStep
    \/ Aggregate

SpecQuality == InitQuality /\ [][NextQuality]_vars

\* The step was run, and the step was run and failed.
Ran(name) == \E k \in 1..Len(ret.steps) : ret.steps[k].step = name
Failed(name) == \E k \in 1..Len(ret.steps) : ret.steps[k].step = name /\ ~ret.steps[k].ok

\* main stands before one of its steps: a child is about to be run, or the
\* file looked for, or the sum taken, and nothing keeps that step from ending.
Stepping == pc \in {"exists", "structure", "prepare", "language", "presentation", "aggregate"}

\* The percentage lies within [0, 100].
InRange(x) == 0 <= x.num /\ x.num <= 100 * x.den

\* C14: for an existing PDF the orchestrator stops nowhere but after the
\* aggregation, whatever steps fail. The overall score printed is the weighted
\* sum 0.5 * Structure + 0.4 * Language + 0.1 * Presentation rounded to one
\* decimal; a failed step contributes 0.0; a failed text preparation makes
\* Language and Presentation 0.0 and runs neither; and the overall score is
\* within [0, 100] whenever the three components are.
C14_AlwaysAggregates ==
    /\ (arg.exists /\ ~Stepping) => pc = "finished"
    /\ pc = "finished" =>
          LET s == ret.struct_pct
              l == ret.lang_pct
              p == ret.pres_pct
              o == ret.overall
          IN  /\ arg.exists
              /\ 10 % o.den = 0
              /\ 20 * Abs(10 * o.num * s.den * l.den * p.den
                            - o.den * (5 * s.num * l.den * p.den + 4 * l.num * s.den * p.den
                                         + p.num * s.den * l.den))
                     <= 10 * o.den * s.den * l.den * p.den
              /\ Ran("structure") /\ Ran("prepare")
              /\ Failed("structure") => s.num = 0
              /\ Failed("language") => l.num = 0
              /\ Failed("presentation") => p.num = 0
              /\ Failed("prepare") =>
                    l.num = 0 /\ p.num = 0 /\ ~Ran("language") /\ ~Ran("presentation")
              /\ ~Failed("prepare") => Ran("language") /\ Ran("presentation")
              /\ (InRange(s) /\ InRange(l) /\ InRange(p)) => InRange(o)

\* The structure step failed after it had printed a score of 75.0; language
\* scored 90.0 and presentation 84.0: overall 0 + 36.0 + 8.4.
C14_Witness ==
    /\ pc = "finished"
    /\ Failed("structure")
    /\ PyContains(ret.steps[1].out, StructureMarker)
    /\ extract_pct(ret.steps[1].out, StructureMarker) = Frac(75, 1)
    /\ ~Failed("prepare") /\ ~Failed("language") /\ ~Failed("presentation")
    /\ ret.struct_pct = Frac(0, 1)
    /\ ret.lang_pct = Frac(90, 1)
    /\ ret.pres_pct = Frac(84, 1)
    /\ ret.overall = Frac(444, 10)

\* ------------------------------------------------------------------ pretty_print_errors, applied

MaxRenderLen == 4

\* Texts as strip_noise hands them over and beyond: read in text mode and joined
\* with "\n", their only line boundary is "\n".
RenderAlphabet == {"a", "b", NL}

InitRender ==
    /\ pc = "call"
    /\ arg \in UNION {{[text |-> t, offset |-> o, errorLength |-> l] :
                          o \in 0..Len(t), l \in 0..MaxErrLen} :
                      t \in Texts(RenderAlphabet, MaxRenderLen)}
    /\ ret = <<>>
    /\ NoRun

\* Lines 103-133 for one issue.
RenderBlock ==
    /\ pc = "call"
    /\ ret' = RenderIssue(arg.text, 1,
                          Match(arg.offset, arg.errorLength, "MORFOLOGIK_RULE_EN_US", arg.text))
    /\ pc' = "rendered"
    /\ UNCHANGED <<arg, runVars>>

NextRender == RenderBlock

SpecRender == InitRender /\ [][NextRender]_vars

\* The stretches of the text between its newlines, the first to the last.
RECURSIVE Segments(_)
Segments(t) ==
    IF \E k \in 1..Len(t) : t[k] = NL
    THEN LET n == Min({k \in 1..Len(t) : t[k] = NL})
         IN  <<SubSeq(t, 1, n - 1)>> \o Segments(SubSeq(t, n + 1, Len(t)))
    ELSE <<t>>

\* C15: the block of an issue at an offset within [0, len(text)] agrees with
\* itself. The source line printed is the line of the text that the header
\* numbers; col - 1 spaces stand before the first caret; and where the offset
\* is at a character of the line, that caret stands under this character.
C15_BlockSelfConsistent ==
    pc = "rendered" =>
        LET t == arg.text
            b == ret
        IN  /\ ~b.raised
            /\ b.line \in 1..Len(Segments(t))
            /\ b.line_text = Segments(t)[b.line]
            /\ b.col >= 1
            /\ Len(b.caret) >= b.col
            /\ \A k \in 1..(b.col - 1) : b.caret[k] = SP
            /\ b.caret[b.col] = "^"
            /\ (arg.offset < Len(t) /\ t[arg.offset + 1] # NL) =>
                   /\ b.col <= Len(b.line_text)
                   /\ b.line_text[b.col] = t[arg.offset + 1]

C15_Witness ==
    /\ pc = "rendered"
    /\ arg.text = <<"a", NL, "a", "b">>
    /\ arg.offset = 3
    /\ ret.line = 2
    /\ ret.col = 2
    /\ ret.line_text = <<"a", "b">>
    /\ ret.caret[1] = SP
    /\ ret.caret[2] = "^"

====
